---- MODULE Spec2Model ----
(***************************************************************************)
(* Registration admin application (src/app.py): spreadsheet ingestion,     *)
(* de-duplication by regno, QR image per record, approval, export, and the *)
(* session gate in front of them.                                          *)
(***************************************************************************)
EXTENDS Integers, Sequences, FiniteSets, TLC

(***************************************************************************)
(* Bounds of the model.                                                    *)
(***************************************************************************)
\* longest uploaded file, in rows, of the ingestion specification
MaxRows == 3
\* longest uploaded file, in rows, of the lifecycle specification
MaxRowsLife == 2
\* longest uploaded file, in rows, of the concurrent specification
MaxRowsConc == 2
\* last value of the clock read by datetime.utcnow()
MaxTime == 1

(***************************************************************************)
(* Python values held by the cells of a parsed row.  Text is a sequence of *)
(* one-character strings, so that str() and strip() are computed.          *)
(***************************************************************************)
PyNone == [t |-> "none", s |-> <<>>, n |-> 0]
NaN == [t |-> "nan", s |-> <<>>, n |-> 0]
PyS(s) == [t |-> "str", s |-> s, n |-> 0]
PyInt(n) == [t |-> "int", s |-> <<>>, n |-> n]
\* a datetime/date/time cell; s is the text str() gives for it
Dt(s) == [t |-> "dt", s |-> s, n |-> 0]

\* Python truthiness, as used by `or`
Truthy(v) ==
  CASE v.t = "none" -> FALSE
    [] v.t = "nan" -> TRUE
    [] v.t = "str" -> Len(v.s) > 0
    [] v.t = "int" -> v.n # 0
    [] v.t = "dt" -> TRUE

Digit(d) == <<"0", "1", "2", "3", "4", "5", "6", "7", "8", "9">>[d + 1]

RECURSIVE Digits(_)
Digits(n) == IF n < 10 THEN <<Digit(n)>> ELSE Digits(n \div 10) \o <<Digit(n % 10)>>

\* str(v), as text
PyStr(v) ==
  CASE v.t = "none" -> <<"N", "o", "n", "e">>
    [] v.t = "nan" -> <<"n", "a", "n">>
    [] v.t = "str" -> v.s
    [] v.t = "int" -> Digits(v.n)
    [] v.t = "dt" -> v.s

IsSpace(c) == c \in {" ", "\t", "\n"}

RECURSIVE LStrip(_)
LStrip(s) == IF s # <<>> /\ IsSpace(Head(s)) THEN LStrip(Tail(s)) ELSE s

RECURSIVE RStrip(_)
RStrip(s) ==
  IF s # <<>> /\ IsSpace(s[Len(s)]) THEN RStrip(SubSeq(s, 1, Len(s) - 1)) ELSE s

\* str.strip()
Strip(s) == RStrip(LStrip(s))

\* dict.get(k): None for a key the row does not have
Get(record, k) == IF k \in DOMAIN record THEN record[k] ELSE PyNone

\* "Convert any datetime/date/time to string"
ConvertRecord(row) ==
  [k \in DOMAIN row |-> IF row[k].t = "dt" THEN PyS(PyStr(row[k])) ELSE row[k]]

\* a or b or c or ''
FirstTruthy(a, b, c) ==
  IF Truthy(a) THEN a ELSE IF Truthy(b) THEN b ELSE IF Truthy(c) THEN c ELSE PyS(<<>>)

\* the regno of a converted record; <<>> when the row is to be skipped
RowRegno(record) ==
  Strip(PyStr(FirstTruthy(Get(record, "Reg No"), Get(record, "regno"), Get(record, "ID"))))

(***************************************************************************)
(* Configuration.                                                          *)
(***************************************************************************)
ADMIN_USER == "admin"
ADMIN_PASS == "password"
ALLOWED_EXT == {".xlsx", ".xls", ".csv"}

\* filename.lower(), on the extensions the model uploads
Lower(ext) == IF ext = ".CSV" THEN ".csv" ELSE ext

allowed_file(ext) == Lower(ext) \in ALLOWED_EXT

(***************************************************************************)
(* Uploaded files.                                                         *)
(***************************************************************************)
A1 == <<"A", "1">>
B2 == <<"B", "2">>
D1 == <<"D", "1">>

RowA(regno, name) == [c \in {"Reg No", "Name"} |-> IF c = "Reg No" THEN regno ELSE name]
RowB(regno, id, joined) ==
  [c \in {"regno", "ID", "Joined"} |-> IF c = "regno" THEN regno ELSE IF c = "ID" THEN id ELSE joined]

Alice == PyS(<<"A", "l", "i", "c", "e">>)
AliceDup == PyS(<<"A", "l", "i", "c", "e", "D", "u", "p">>)
NoId == PyS(<<"N", "o", "I", "d">>)
Bob == PyS(<<"B", "o", "b">>)

\* rows of a sheet with the columns Reg No, Name
RowsA == { RowA(PyS(A1), Alice), RowA(PyS(A1), AliceDup), RowA(NaN, NoId) }

\* rows of a sheet with the columns regno, ID, Joined
RowsB == { RowB(PyInt(0), PyS(B2), Dt(D1)), RowB(PyS(<<" ">>), PyS(A1), NaN) }

\* rows of the sheets of the lifecycle specification
RowsLife == { RowA(PyS(A1), Alice), RowA(PyS(<<" ", "B", "2", " ">>), Bob) }

SeqsUpTo(S, n) == UNION { [1..k -> S] : k \in 0..n }

\* the parsed content of a file: every row has the sheet's columns
Sheets(n) == SeqsUpTo(RowsA, n) \cup SeqsUpTo(RowsB, n)

NoFile == [present |-> FALSE, ext |-> "", parses |-> FALSE, rows |-> <<>>]

File(rows) == [present |-> TRUE, ext |-> ".csv", parses |-> TRUE, rows |-> rows]

\* no file, a refused extension, an unreadable file, an upper-case extension
EdgeFiles ==
  { NoFile,
    [present |-> TRUE, ext |-> ".txt", parses |-> TRUE, rows |-> <<RowA(PyS(A1), Alice)>>],
    [present |-> TRUE, ext |-> ".xls", parses |-> FALSE, rows |-> <<>>],
    [present |-> TRUE, ext |-> ".CSV", parses |-> TRUE, rows |-> <<RowA(PyS(A1), Alice)>>] }

Uploads(sheets) == { File(r) : r \in sheets } \cup EdgeFiles

\* the uploads of the ingestion specification
UploadsIngest == Uploads(Sheets(MaxRows))

\* the uploads of the lifecycle specification
UploadsLife == Uploads(SeqsUpTo(RowsLife, MaxRowsLife))

(***************************************************************************)
(* State.                                                                  *)
(***************************************************************************)
VARIABLES
  admin,    \* session['admin'] of the one browser session
  store,    \* committed rows of the registration table, in id order (id = index)
  images,   \* files of static/qrcodes
  now,      \* the clock datetime.utcnow() reads
  req,      \* the last request served
  resp,     \* its response
  pre,      \* history: the table as the last request found it
  wrote,    \* history: the image files the last request wrote, in order
  repeat,   \* history: the last request is the one before it, sent again
  procs,    \* the upload requests in flight (concurrent specification)
  writer    \* holder of the database write lock, 0 when free

vars == <<admin, store, images, now, req, resp, pre, wrote, repeat, procs, writer>>

Procs == {1, 2}

\* approved_at IS NULL
None == <<>>

\* Registration(regno=regno, data=record, status='pending'), as inserted at time t
Registration(regno, record, t) ==
  [regno |-> regno, data |-> record, status |-> "pending", created_at |-> t,
   approved_at |-> None]

\* f"{regno}.png" under UPLOAD_FOLDER
QrFile(regno) == regno \o <<".png">>

\* mutant: the "Skip duplicates" query never finds a row
ExistsNever(rows, regno) == FALSE

\* Registration.query.filter_by(regno=regno).first() is not None, on the rows visible
Exists(rows, regno) == \E i \in 1..Len(rows) : rows[i].regno = regno

\* mutant: the `if not rec` check lets every non-negative id through
FoundAny(rows, rec_id) == rec_id >= 0

\* Registration.query.get(rec_id) finds a row
Found(rows, rec_id) == rec_id \in 1..Len(rows)

\* Registration.query.filter_by(status=status).all(): ids in table order
RECURSIVE WithStatus(_, _)
WithStatus(rows, status) ==
  IF rows = <<>> THEN <<>>
  ELSE LET n == Len(rows)
           rest == WithStatus(SubSeq(rows, 1, n - 1), status)
       IN IF rows[n].status = status THEN Append(rest, n) ELSE rest

\* one pass of the row loop: acc is [store, wrote, created]
IngestRow(acc, row, t) ==
  LET record == ConvertRecord(row)
      regno == RowRegno(record)
  IN IF regno = <<>> THEN acc
     ELSE IF Exists(acc.store, regno) THEN acc
     ELSE [store |-> Append(acc.store, Registration(regno, record, t)),
           wrote |-> Append(acc.wrote, QrFile(regno)),
           created |-> acc.created + 1]

\* the row loop over df.iterrows()
RECURSIVE Ingest(_, _, _)
Ingest(rows, acc, t) ==
  IF rows = <<>> THEN acc ELSE Ingest(Tail(rows), IngestRow(acc, Head(rows), t), t)

\* mutant: the status is set and the timestamp forgotten
ApproveRowNoStamp(rows, rec_id, t) == [rows EXCEPT ![rec_id].status = "approved"]

\* mutant: the update is not restricted to the row found
ApproveRowAll(rows, rec_id, t) ==
  [i \in 1..Len(rows) |-> [rows[i] EXCEPT !.status = "approved", !.approved_at = <<t>>]]

\* mutant: approving an approved row takes the approval back
ApproveRowToggle(rows, rec_id, t) ==
  IF rows[rec_id].status = "approved"
  THEN [rows EXCEPT ![rec_id].status = "pending", ![rec_id].approved_at = None]
  ELSE [rows EXCEPT ![rec_id].status = "approved", ![rec_id].approved_at = <<t>>]

\* rec.status = 'approved'; rec.approved_at = datetime.utcnow()
ApproveRow(rows, rec_id, t) ==
  [rows EXCEPT ![rec_id].status = "approved", ![rec_id].approved_at = <<t>>]

\* mutant: the route is served without the decorator
login_not_required(flag) == TRUE

\* the login_required check on session.get('admin')
login_required(flag) == flag

\* username == ADMIN_USER and password == ADMIN_PASS
Credentials(username, password) == username = ADMIN_USER /\ password = ADMIN_PASS

(***************************************************************************)
(* Requests and responses.                                                 *)
(***************************************************************************)
Req(route, method) ==
  [route |-> route, method |-> method, username |-> "", password |-> "",
   file |-> NoFile, id |-> 0, regno |-> <<>>]

Resp(kind, flash) == [kind |-> kind, flash |-> flash, n |-> 0, m |-> 0, rows |-> <<>>]

\* redirect(url_for('admin_login', next=request.path))
ToLogin == Resp("redirect:login", "")

Range(s) == { s[i] : i \in 1..Len(s) }

\* a request that touches neither the table nor the image directory
Reads(r, answer) ==
  /\ req' = r
  /\ resp' = answer
  /\ pre' = store
  /\ wrote' = <<>>
  /\ repeat' = (r = req)
  /\ UNCHANGED <<store, images, now, procs, writer>>

\* a worker with no request
Idle ==
  [pc |-> "idle", rows |-> <<>>, created |-> 0, regno |-> <<>>, record |-> <<>>,
   new |-> <<>>, tx |-> <<>>, error |-> ""]

Init ==
  /\ admin = FALSE
  /\ store = <<>>
  /\ images = {}
  /\ now = 0
  /\ req = Req("start", "GET")
  /\ resp = Resp("none", "")
  /\ pre = <<>>
  /\ wrote = <<>>
  /\ repeat = FALSE
  /\ procs = [p \in Procs |-> Idle]
  /\ writer = 0

(***************************************************************************)
(* Routes.                                                                 *)
(***************************************************************************)
\* GET /
index ==
  /\ Reads(Req("index", "GET"), Resp("redirect:upload", ""))
  /\ UNCHANGED admin

\* GET /admin/login
admin_login_get ==
  /\ Reads(Req("login", "GET"),
           IF admin THEN Resp("redirect:dashboard", "") ELSE Resp("page:login", ""))
  /\ UNCHANGED admin

\* POST /admin/login
admin_login_post(username, password) ==
  LET r == [Req("login", "POST") EXCEPT !.username = username, !.password = password]
  IN IF admin
     THEN Reads(r, Resp("redirect:dashboard", "")) /\ UNCHANGED admin
     ELSE IF Credentials(username, password)
     THEN Reads(r, Resp("redirect:dashboard", "Logged in as admin")) /\ admin' = TRUE
     ELSE Reads(r, Resp("page:login", "Invalid credentials")) /\ UNCHANGED admin

\* GET /admin/logout
admin_logout ==
  /\ Reads(Req("logout", "GET"), Resp("redirect:login", "Logged out"))
  /\ admin' = FALSE

\* GET /upload
upload_get ==
  /\ Reads(Req("upload", "GET"),
           IF login_required(admin) THEN Resp("page:upload", "") ELSE ToLogin)
  /\ UNCHANGED admin

\* POST /upload, served in one piece
upload_post(f) ==
  LET r == [Req("upload", "POST") EXCEPT !.file = f]
  IN /\ UNCHANGED admin
     /\ IF ~login_required(admin) THEN Reads(r, ToLogin)
        ELSE IF ~f.present THEN Reads(r, Resp("redirect:upload", "No file uploaded"))
        ELSE IF ~allowed_file(f.ext)
        THEN Reads(r, Resp("redirect:upload", "File type not allowed"))
        ELSE IF ~f.parses THEN Reads(r, Resp("redirect:upload", "Error reading file"))
        ELSE LET out == Ingest(f.rows, [store |-> store, wrote |-> <<>>, created |-> 0], now)
             IN /\ req' = r
                /\ store' = out.store
                /\ images' = images \cup Range(out.wrote)
                /\ wrote' = out.wrote
                /\ resp' = [Resp("redirect:upload", "Processed file") EXCEPT !.n = out.created]
                /\ pre' = store
                /\ repeat' = (r = req)
                /\ UNCHANGED <<now, procs, writer>>

\* GET /admin/dashboard: the two counts (the list of the 10 latest pending records
\* it also renders is left out of the response)
admin_dashboard ==
  /\ Reads(Req("dashboard", "GET"),
           IF login_required(admin)
           THEN [Resp("page:dashboard", "") EXCEPT !.n = Len(WithStatus(store, "pending")),
                                                  !.m = Len(WithStatus(store, "approved"))]
           ELSE ToLogin)
  /\ UNCHANGED admin

\* GET /admin/scan
admin_scan ==
  /\ Reads(Req("scan", "GET"), IF login_required(admin) THEN Resp("page:scan", "") ELSE ToLogin)
  /\ UNCHANGED admin

\* GET /api/get_by_regno/<regno>
api_get_by_regno(regno) ==
  LET r == [Req("get_by_regno", "GET") EXCEPT !.regno = regno]
      hit == CHOOSE i \in 1..Len(store) : store[i].regno = regno
  IN /\ UNCHANGED admin
     /\ IF ~login_required(admin) THEN Reads(r, ToLogin)
        ELSE IF ~Exists(store, regno) THEN Reads(r, Resp("json:404", "not found"))
        ELSE Reads(r, [Resp("json:record", "") EXCEPT
                         !.rows = <<[id |-> hit, data |-> store[hit].data,
                                     status |-> store[hit].status]>>])

\* POST /api/approve/<int:rec_id>
api_approve(rec_id) ==
  LET r == [Req("approve", "POST") EXCEPT !.id = rec_id]
  IN /\ UNCHANGED admin
     /\ IF ~login_required(admin) THEN Reads(r, ToLogin)
        ELSE IF ~Found(store, rec_id) THEN Reads(r, Resp("json:404", "not found"))
        ELSE /\ req' = r
             /\ store' = ApproveRow(store, rec_id, now)
             /\ resp' = Resp("json:ok", "")
             /\ pre' = store
             /\ wrote' = <<>>
             /\ repeat' = (r = req)
             /\ UNCHANGED <<images, now, procs, writer>>

\* GET /admin/download
admin_download_page ==
  /\ Reads(Req("download", "GET"),
           IF login_required(admin)
           THEN [Resp("page:download", "") EXCEPT !.m = Len(WithStatus(store, "approved"))]
           ELSE ToLogin)
  /\ UNCHANGED admin

\* mutant: the export query has no status filter
ExportDocsAll(rows) == [i \in 1..Len(rows) |-> i]

\* the docs of the export: Registration.query.filter_by(status='approved').all()
ExportDocs(rows) == WithStatus(rows, "approved")

\* GET /admin/download/export
admin_download_export ==
  LET docs == ExportDocs(store)
  IN /\ Reads(Req("export", "GET"),
              IF ~login_required(admin) THEN ToLogin
              ELSE IF docs = <<>>
              THEN Resp("redirect:download", "No approved records to download")
              ELSE [Resp("file:xlsx", "") EXCEPT
                      !.rows = [i \in 1..Len(docs) |-> store[docs[i]].data]])
     /\ UNCHANGED admin

\* the clock advances between requests
Tick ==
  /\ now < MaxTime
  /\ now' = now + 1
  /\ UNCHANGED <<admin, store, images, req, resp, pre, wrote, repeat, procs, writer>>

Usernames == {"admin", "guest"}
Passwords == {"password", "letmein"}
Regnos == {A1, B2, <<"Z", "9">>}

\* the requests other than the upload POST
Other ==
  \/ index
  \/ admin_login_get
  \/ \E u \in Usernames, p \in Passwords : admin_login_post(u, p)
  \/ admin_logout
  \/ upload_get
  \/ admin_dashboard
  \/ admin_scan
  \/ \E r \in Regnos : api_get_by_regno(r)
  \/ \E i \in 0..(Len(store) + 1) : api_approve(i)
  \/ admin_download_page
  \/ admin_download_export
  \/ Tick

\* the application, one request at a time
Next == Other \/ \E f \in UploadsLife : upload_post(f)

Spec == Init /\ [][Next]_vars

\* the ingestion pipeline in front of the table: login and uploads of whole sheets
NextUpload ==
  \/ \E u \in Usernames, p \in Passwords : admin_login_post(u, p)
  \/ admin_logout
  \/ \E f \in UploadsIngest : upload_post(f)

SpecUpload == Init /\ [][NextUpload]_vars

(***************************************************************************)
(* Two upload POSTs served concurrently.  Each request has its own         *)
(* SQLAlchemy session: `new` holds the objects added and not yet flushed,  *)
(* `tx` the rows its open transaction has inserted.  A flush (the          *)
(* autoflush before a query, or the one of commit) INSERTs `new`; SQLite   *)
(* lets one transaction write at a time and checks the UNIQUE index of     *)
(* regno at each INSERT.                                                   *)
(***************************************************************************)
\* the sheets uploaded concurrently
ConcSheets == SeqsUpTo(RowsLife, MaxRowsConc)

\* mutant: the column is declared without unique=True
UniqueViolationNever(rows, obj) == FALSE

\* regno = db.Column(..., unique=True): the INSERT of obj is refused
UniqueViolation(rows, obj) == Exists(rows, obj.regno)

\* the rows a request's own queries see
Visible(p) == store \o procs[p].tx

\* what flushing the session of p would do now
FlushOutcome(p) ==
  LET me == procs[p]
  IN IF me.new = <<>> THEN "ok"
     ELSE IF writer \notin {0, p} THEN "busy"
     ELSE IF \E i \in 1..Len(me.new) :
                UniqueViolation(Visible(p) \o SubSeq(me.new, 1, i - 1), me.new[i])
     THEN "integrity"
     ELSE "ok"

\* the transaction of p after a flush that went through; created_at defaults at INSERT
Flushed(p) ==
  procs[p].tx \o [i \in 1..Len(procs[p].new) |-> [procs[p].new[i] EXCEPT !.created_at = now]]

Session == <<admin, req, resp, pre, wrote, repeat, now>>

\* the request of p ends in an exception: 500, and the session is rolled back
Abort(p, error) ==
  /\ procs' = [procs EXCEPT ![p] = [@ EXCEPT !.pc = "failed", !.error = error,
                                              !.new = <<>>, !.tx = <<>>]]
  /\ writer' = IF writer = p THEN 0 ELSE writer
  /\ UNCHANGED <<store, images, Session>>

\* POST /upload arrives at worker p: the gate and the file checks have passed
conc_begin(p, rows) ==
  /\ procs[p].pc = "idle"
  /\ login_required(admin)
  /\ procs' = [procs EXCEPT ![p] = [Idle EXCEPT !.pc = "row", !.rows = rows]]
  /\ UNCHANGED <<store, images, writer, Session>>

\* top of the loop body: convert, resolve regno, "Skip duplicates" query
conc_check(p) ==
  LET me == procs[p]
      record == ConvertRecord(Head(me.rows))
      regno == RowRegno(record)
  IN /\ me.pc = "row"
     /\ me.rows # <<>>
     /\ IF regno = <<>>
        THEN /\ procs' = [procs EXCEPT ![p].rows = Tail(me.rows)]
             /\ UNCHANGED <<store, images, writer, Session>>
        ELSE /\ FlushOutcome(p) # "busy"
             /\ IF FlushOutcome(p) = "integrity" THEN Abort(p, "IntegrityError")
                ELSE /\ procs' =
                          [procs EXCEPT ![p] =
                             IF Exists(store \o Flushed(p), regno)
                             THEN [@ EXCEPT !.rows = Tail(me.rows), !.new = <<>>,
                                            !.tx = Flushed(p)]
                             ELSE [@ EXCEPT !.pc = "add", !.regno = regno, !.record = record,
                                            !.new = <<>>, !.tx = Flushed(p)]]
                     /\ writer' = IF me.new # <<>> THEN p ELSE writer
                     /\ UNCHANGED <<store, images, Session>>

\* rest of the loop body: write the image, db.session.add(reg), created += 1
conc_add(p) ==
  LET me == procs[p]
  IN /\ me.pc = "add"
     /\ images' = images \cup {QrFile(me.regno)}
     /\ procs' = [procs EXCEPT ![p] =
                    [@ EXCEPT !.pc = "row", !.rows = Tail(me.rows),
                              !.new = Append(me.new, Registration(me.regno, me.record, now)),
                              !.created = me.created + 1]]
     /\ UNCHANGED <<store, writer, Session>>

\* db.session.commit() after the loop
conc_commit(p) ==
  LET me == procs[p]
  IN /\ me.pc = "row"
     /\ me.rows = <<>>
     /\ FlushOutcome(p) # "busy"
     /\ IF FlushOutcome(p) = "integrity" THEN Abort(p, "IntegrityError")
        ELSE /\ store' = store \o Flushed(p)
             /\ procs' = [procs EXCEPT ![p] = [@ EXCEPT !.pc = "done", !.new = <<>>, !.tx = <<>>]]
             /\ writer' = IF writer = p THEN 0 ELSE writer
             /\ UNCHANGED <<images, Session>>

\* the write lock stayed with the other request for the whole busy timeout
conc_locked(p) ==
  /\ procs[p].pc = "row"
  /\ IF procs[p].rows = <<>> THEN TRUE
     ELSE RowRegno(ConvertRecord(Head(procs[p].rows))) # <<>>
  /\ FlushOutcome(p) = "busy"
  /\ Abort(p, "OperationalError")

\* the response is sent and the worker is free again
conc_end(p) ==
  /\ procs[p].pc \in {"done", "failed"}
  /\ procs' = [procs EXCEPT ![p] = Idle]
  /\ UNCHANGED <<store, images, writer, Session>>

NextConc ==
  \/ admin_login_post(ADMIN_USER, ADMIN_PASS)
  \/ \E p \in Procs, rows \in ConcSheets : conc_begin(p, rows)
  \/ \E p \in Procs : conc_check(p)
  \/ \E p \in Procs : conc_add(p)
  \/ \E p \in Procs : conc_commit(p)
  \/ \E p \in Procs : conc_locked(p)
  \/ \E p \in Procs : conc_end(p)

SpecConc == Init /\ [][NextConc]_vars

(***************************************************************************)
(* Properties of the record lifecycle (specification Spec).                *)
(***************************************************************************)
Ids(rows) == 1..Len(rows)

GatedRoutes ==
  {"upload", "dashboard", "scan", "get_by_regno", "approve", "download", "export"}

\* the step serves a request (the clock does not move while one is served)
Served == now' = now

StatusOk ==
  \A i \in Ids(store) :
    /\ store[i].status \in {"pending", "approved"}
    /\ (store[i].approved_at # None) <=> (store[i].status = "approved")

NoWayBack ==
  /\ Len(store') >= Len(store)
  /\ \A i \in Ids(store) :
       /\ store'[i].regno = store[i].regno
       /\ store[i].status = "approved" => store'[i].status = "approved"

\* C3: in every reachable state each record's status is pending or approved and
\* approved_at is set exactly when the status is approved; no step takes a record
\* from approved back to pending, and no step deletes a record.
C3_StatusLifecycle == []StatusOk /\ [][NoWayBack]_vars

\* C3 witness: an upload has added a pending record beside an approved one
C3_Witness ==
  /\ req.route = "upload"
  /\ resp.n > 0
  /\ \E i \in Ids(store) : store[i].status = "approved" /\ store[i].approved_at # None
  /\ \E i \in Ids(store) : store[i].status = "pending"

\* C5: while the admin flag is not set every request to a session-gated route is
\* answered with the redirect to the login page and leaves the table and the
\* image directory unchanged; the flag becomes set only by a login POST whose
\* username and password both equal the configured ones, and logout clears it.
C5_SessionGate ==
  [][ /\ (~admin /\ req'.route \in GatedRoutes) =>
           (resp' = ToLogin /\ store' = store /\ images' = images)
      /\ (~admin /\ admin') =>
           (/\ req'.route = "login" /\ req'.method = "POST"
            /\ req'.username = ADMIN_USER /\ req'.password = ADMIN_PASS)
      /\ (req'.route = "logout" /\ Served) => ~admin' ]_vars

\* C5 witness: after a logout, approving an existing pending record was refused
C5_Witness ==
  /\ ~admin
  /\ req.route = "approve"
  /\ resp = ToLogin
  /\ req.id \in Ids(store)
  /\ store[req.id].status = "pending"

\* C6: approve(id) on an existing pending record changes only that record's
\* status and approved_at: its place in the table (its id), regno, data and
\* created_at stay, and every other record is unchanged.
C6_ApproveFrame ==
  [][ (/\ req'.route = "approve" /\ Served /\ admin
       /\ req'.id \in Ids(store) /\ store[req'.id].status = "pending") =>
        (/\ Len(store') = Len(store)
         /\ \A i \in Ids(store) :
              IF i = req'.id
              THEN /\ store'[i].regno = store[i].regno
                   /\ store'[i].data = store[i].data
                   /\ store'[i].created_at = store[i].created_at
                   /\ store'[i].status = "approved"
              ELSE store'[i] = store[i]) ]_vars

\* C6 witness: a pending record was approved while the table held another record
C6_Witness ==
  /\ req.route = "approve"
  /\ resp.kind = "json:ok"
  /\ pre[req.id].status = "pending"
  /\ store[req.id].status = "approved"
  /\ Len(store) >= 2

\* the step takes record i from pending to approved
Approves(i) == store[i].status = "pending" /\ store'[i].status = "approved"

\* C7, as claimed: approved_at is absent before the transition from pending to
\* approved, is set at that transition, and once set is never assigned again.
C7_StampedOnce ==
  [][ \A i \in Ids(store) :
        /\ (store[i].approved_at = None /\ store'[i].approved_at # None) <=> Approves(i)
        /\ store[i].approved_at # None => store'[i].approved_at = store[i].approved_at ]_vars

\* C7, amended: approved_at is absent before the transition from pending to
\* approved and is set at that transition; once set it is never cleared, and it
\* is assigned again only by a further approve call on that record, which sets
\* it to the time of that call.
C7_StampedAtApprove ==
  [][ \A i \in Ids(store) :
        /\ (store[i].approved_at = None /\ store'[i].approved_at # None) <=> Approves(i)
        /\ store[i].approved_at # None => store'[i].approved_at # None
        /\ store'[i].approved_at # store[i].approved_at =>
             (/\ req'.route = "approve" /\ req'.id = i /\ admin
              /\ store'[i].approved_at = <<now>>) ]_vars

\* C7 witness: a further approve call has moved the approved_at of an approved record
C7_Witness ==
  /\ req.route = "approve"
  /\ resp.kind = "json:ok"
  /\ pre[req.id].status = "approved"
  /\ store[req.id].approved_at # pre[req.id].approved_at
  /\ store[req.id].approved_at # None

UploadOf(r) == r.route = "upload" /\ r.method = "POST"

\* C8: an upload POST of the file of the request served just before it adds no
\* record: the table is the same after it, and it reports 0 records added.
C8_ReuploadAddsNothing ==
  [][ (UploadOf(req) /\ UploadOf(req') /\ req'.file = req.file /\ Served) =>
        (store' = store /\ resp'.n = 0) ]_vars

\* C8 witness: a sheet with a row the first upload stored was uploaded twice in a row
C8_Witness ==
  /\ repeat
  /\ UploadOf(req)
  /\ resp.flash = "Processed file"
  /\ req.file.rows # <<>>
  /\ \E i \in Ids(store) : store[i].data = ConvertRecord(req.file.rows[1])

ApprovedIds == { i \in Ids(store) : store[i].status = "approved" }

\* C9: an export with no approved record gives no file, a warning and the
\* redirect to the download page; with M > 0 approved records it gives a sheet
\* of exactly M rows, one per approved record and none for a pending one; the
\* export never changes the table.
C9_Export ==
  [][ (req'.route = "export" /\ Served /\ admin) =>
        /\ store' = store
        /\ IF ApprovedIds = {}
           THEN /\ resp'.kind = "redirect:download"
                /\ resp'.flash = "No approved records to download"
                /\ resp'.rows = <<>>
           ELSE /\ resp'.kind = "file:xlsx"
                /\ Len(resp'.rows) = Cardinality(ApprovedIds)
                /\ \E f \in [Ids(resp'.rows) -> ApprovedIds] :
                     /\ \A a, b \in Ids(resp'.rows) : a < b => f[a] < f[b]
                     /\ \A a \in Ids(resp'.rows) : resp'.rows[a] = store[f[a]].data ]_vars

\* C9 witness: a sheet was exported while the table held approved and pending records
C9_Witness ==
  /\ req.route = "export"
  /\ resp.kind = "file:xlsx"
  /\ Len(resp.rows) >= 1
  /\ \E i \in Ids(store) : store[i].status = "pending"

\* C10: approve(id) by the logged-in admin for an id no record has answers 404
\* "not found" and changes nothing in the table.
C10_ApproveUnknown ==
  [][ (req'.route = "approve" /\ Served /\ admin /\ req'.id \notin Ids(store)) =>
        (/\ resp'.kind = "json:404" /\ resp'.flash = "not found"
         /\ store' = store) ]_vars

\* C10 witness: an unknown id was refused while the table held a pending record
C10_Witness ==
  /\ admin
  /\ req.route = "approve"
  /\ req.id \notin Ids(store)
  /\ resp.kind = "json:404"
  /\ \E i \in Ids(store) : store[i].status = "pending"

(***************************************************************************)
(* Uniqueness of regno under concurrent uploads (specification SpecConc).  *)
(***************************************************************************)
UniqueRegnos == \A i, j \in Ids(store) : store[i].regno = store[j].regno => i = j

RegnoKept == \A i \in Ids(store) : i \in Ids(store') /\ store'[i].regno = store[i].regno

\* C4: in every reachable state no two records of the table have the same regno,
\* and no step changes the regno of a record; also when two upload requests
\* whose files hold the same regno interleave their checks and inserts.
C4_RegnoUnique == []UniqueRegnos /\ [][RegnoKept]_vars

\* C4 witness: both requests passed the check for a regno, one committed it and
\* the INSERT of the other was refused
C4_Witness ==
  \E p \in Procs :
    /\ procs[p].pc = "failed"
    /\ procs[p].error = "IntegrityError"
    /\ Exists(store, procs[p].regno)

(***************************************************************************)
(* Properties of ingestion (specification SpecUpload).                     *)
(***************************************************************************)
\* a cell with no value: a missing column, '', 0, or the empty cell of a parsed file
Blank(v) == ~Truthy(v) \/ v.t = "nan"

\* the identifier the specification gives a row: the first non-blank of the
\* three columns, trimmed; <<>> when there is none
ClaimedRegno(record) ==
  LET a == Get(record, "Reg No")
      b == Get(record, "regno")
      c == Get(record, "ID")
  IN IF ~Blank(a) THEN Strip(PyStr(a))
     ELSE IF ~Blank(b) THEN Strip(PyStr(b))
     ELSE IF ~Blank(c) THEN Strip(PyStr(c))
     ELSE <<>>

ClaimedKey(rows, i) == ClaimedRegno(ConvertRecord(rows[i]))

\* the rows with an identifier that is neither in the table nor on an earlier row
FreshRows(rows, old) ==
  { i \in Ids(rows) :
      /\ ClaimedKey(rows, i) # <<>>
      /\ ~\E k \in Ids(old) : old[k].regno = ClaimedKey(rows, i)
      /\ \A j \in 1..(i - 1) : ClaimedKey(rows, j) # ClaimedKey(rows, i) }

\* the last request was an upload POST of a parseable allowed file by the admin
Ingested ==
  /\ UploadOf(req)
  /\ admin
  /\ req.file.present /\ allowed_file(req.file.ext) /\ req.file.parses

NewIds == (Len(pre) + 1)..Len(store)

\* C1: after an upload POST of a parseable allowed file by the logged-in admin,
\* with K the number of rows whose identifier is non-empty, not in the table
\* before and not on an earlier row: exactly K records are new, each pending
\* with no approved_at, exactly K images <regno>.png were written for those
\* identifiers, and the count reported is K.
C1_UploadAddsFresh ==
  Ingested =>
    LET rows == req.file.rows
        fresh == FreshRows(rows, pre)
        K == Cardinality(fresh)
    IN /\ Len(store) = Len(pre) + K
       /\ SubSeq(store, 1, Len(pre)) = pre
       /\ \A i \in NewIds : store[i].status = "pending" /\ store[i].approved_at = None
       /\ { store[i].regno : i \in NewIds } = { ClaimedKey(rows, i) : i \in fresh }
       /\ Len(wrote) = K
       /\ Range(wrote) = { QrFile(ClaimedKey(rows, i)) : i \in fresh }
       /\ resp.n = K

\* the sheet of the concrete scenario
ScenarioRows == <<RowA(PyS(A1), Alice), RowA(PyS(A1), AliceDup), RowA(NaN, NoId)>>

\* C2: the regno of every record an upload stores is the first non-empty value of
\* Reg No, regno, ID of its row, trimmed; a row with no such value stores no
\* record, writes no image and is not counted; the scenario sheet uploaded into
\* an empty table leaves exactly the record A1/Alice, and 1 pending record.
C2_RegnoResolution ==
  Ingested =>
    LET rows == req.file.rows
    IN /\ \A i \in NewIds :
            store[i].regno # <<>> /\ store[i].regno = ClaimedRegno(store[i].data)
       /\ (\A i \in Ids(rows) : ClaimedKey(rows, i) = <<>>) =>
            (store = pre /\ wrote = <<>> /\ resp.n = 0)
       /\ (rows = ScenarioRows /\ pre = <<>>) =>
            (/\ Len(store) = 1
             /\ store[1].regno = A1
             /\ store[1].data["Name"] = Alice
             /\ Len(WithStatus(store, "pending")) = 1)

====
